---------------------------- MODULE Spec2Model ----------------------------
(***************************************************************************)
(* SmartFormDetector (src/py_test/auto_dectect.py): analysis of the tables *)
(* of a Word document (classification, field location) and fill_form.      *)
(*                                                                         *)
(* Representation.                                                         *)
(*  - A text is a sequence of glyphs; a glyph is written as an ASCII token *)
(*    (the pinyin of a Chinese character, numbered where two characters    *)
(*    share a pinyin; "fwcolon" is the full-width colon).                  *)
(*  - An identifier string (a field type, a mapping key, a key of data) is *)
(*    the sequence of the pieces between its underscores: "birth_date" is  *)
(*    <<"birth", "date">>.  f"{a}_{b}" is then concatenation and           *)
(*    s.split('_')[0] is the first piece.                                  *)
(*  - A table is a sequence of rows, a row a sequence of cell texts; rows  *)
(*    may differ in width.  Coordinates are 0-based as in the source.      *)
(*  - A dict is the sequence of its items in insertion order.              *)
(***************************************************************************)
EXTENDS Integers, Sequences, FiniteSets, TLC

VARIABLES
    doc,           \* self.doc.tables: the cell texts of every table
    tables_info,   \* self.tables_info
    data,          \* argument of the last fill_form call
    filled_count,  \* value returned by the last fill_form call
    status,        \* "loaded" | "load_failed" | "returned" | "raised": how
                   \* the constructor or the last fill_form call ended
    calls,         \* number of fill_form calls made so far
    limit          \* number of fill_form calls the client makes

vars == <<doc, tables_info, data, filled_count, status, calls, limit>>

---------------------------------------------------------------------------
(* Bounds of the model *)

MaxRows == 3      \* rows of a table
MaxCols == 2      \* cells of a row
MaxCells == 4     \* cells of a table
MaxKeys == 2      \* keys of the data of one call
DocTables == 2    \* tables of a document of SpecDocs
DocRows == 2      \* rows of a table of such a document
DocCells == 4     \* cells of such a document
MaxCalls == 2     \* fill_form calls on a detector of SpecCalls
CallRows == 2     \* rows of the table of such a detector
CallCells == 2    \* cells of that table
LocRows == 2      \* rows of the table of a document of SpecLocator
LocCells == 3     \* cells of that table

---------------------------------------------------------------------------
(* The pattern dictionary, in dictionary order *)

field_patterns == <<
    \* name: 姓\s*名 申请人 负责人 姓名： 名字
    [field_type |-> <<"name">>,
     patterns |-> << <<"xing", "\\s*", "ming">>,
                   <<"shen", "qing", "ren">>,
                   <<"fu", "ze", "ren">>,
                   <<"xing", "ming", "fwcolon">>,
                   <<"ming", "zi">> >>],
    \* gender: 性\s*别 性别：
    [field_type |-> <<"gender">>,
     patterns |-> << <<"xing2", "\\s*", "bie">>,
                   <<"xing2", "bie", "fwcolon">> >>],
    \* birth_date: 出生年月 出生日期 生日 出生时间
    [field_type |-> <<"birth", "date">>,
     patterns |-> << <<"chu", "sheng", "nian", "yue">>,
                   <<"chu", "sheng", "ri", "qi">>,
                   <<"sheng", "ri">>,
                   <<"chu", "sheng", "shi", "jian">> >>],
    \* phone: 电\s*话 联系电话 手机 联系方式 电话号码
    [field_type |-> <<"phone">>,
     patterns |-> << <<"dian", "\\s*", "hua">>,
                   <<"lian", "xi", "dian", "hua">>,
                   <<"shou", "ji">>,
                   <<"lian", "xi", "fang", "shi2">>,
                   <<"dian", "hua", "hao", "ma">> >>],
    \* email: 邮\s*箱 电子邮件 E-?mail 电邮
    [field_type |-> <<"email">>,
     patterns |-> << <<"you", "\\s*", "xiang">>,
                   <<"dian", "zi2", "you", "jian2">>,
                   <<"E", "-?", "m", "a", "i", "l">>,
                   <<"dian", "you">> >>],
    \* ethnicity: 民\s*族 民族：
    [field_type |-> <<"ethnicity">>,
     patterns |-> << <<"min", "\\s*", "zu">>,
                   <<"min", "zu", "fwcolon">> >>],
    \* nationality: 国\s*籍 国籍：
    [field_type |-> <<"nationality">>,
     patterns |-> << <<"guo", "\\s*", "ji2">>,
                   <<"guo", "ji2", "fwcolon">> >>],
    \* id_number: 身份证 证件号 身份证号
    [field_type |-> <<"id", "number">>,
     patterns |-> << <<"shen2", "fen", "zheng">>,
                   <<"zheng", "jian2", "hao">>,
                   <<"shen2", "fen", "zheng", "hao">> >>],
    \* address: 地\s*址 住址 通讯地址 联系地址
    [field_type |-> <<"address">>,
     patterns |-> << <<"di", "\\s*", "zhi">>,
                   <<"zhu", "zhi">>,
                   <<"tong", "xun", "di", "zhi">>,
                   <<"lian", "xi", "di", "zhi">> >>],
    \* title: 职\s*称 职务 专业技术职务 技术职称 职位
    [field_type |-> <<"title">>,
     patterns |-> << <<"zhi2", "\\s*", "cheng">>,
                   <<"zhi2", "wu">>,
                   <<"zhuan", "ye", "ji3", "shu", "zhi2", "wu">>,
                   <<"ji3", "shu", "zhi2", "cheng">>,
                   <<"zhi2", "wei">> >>],
    \* department: 部\s*门 院系 单位 所在部门 工作单位
    [field_type |-> <<"department">>,
     patterns |-> << <<"bu", "\\s*", "men">>,
                   <<"yuan", "xi">>,
                   <<"dan", "wei">>,
                   <<"suo", "zai", "bu", "men">>,
                   <<"gong", "zuo", "dan", "wei">> >>],
    \* degree: 学\s*位 学历 最高学位 最终学位
    [field_type |-> <<"degree">>,
     patterns |-> << <<"xue", "\\s*", "wei">>,
                   <<"xue", "li">>,
                   <<"zui", "gao", "xue", "wei">>,
                   <<"zui", "zhong", "xue", "wei">> >>],
    \* major: 专\s*业 研究方向 研究领域 专业方向
    [field_type |-> <<"major">>,
     patterns |-> << <<"zhuan", "\\s*", "ye">>,
                   <<"yan", "jiu", "fang", "xiang2">>,
                   <<"yan", "jiu", "ling", "yu">>,
                   <<"zhuan", "ye", "fang", "xiang2">> >>],
    \* project_name: 项目名称 课题名称 研究名称 项目题目
    [field_type |-> <<"project", "name">>,
     patterns |-> << <<"xiang3", "mu", "ming", "cheng">>,
                   <<"ke", "ti", "ming", "cheng">>,
                   <<"yan", "jiu", "ming", "cheng">>,
                   <<"xiang3", "mu", "ti", "mu">> >>],
    \* project_number: 项目编号 项目号 课题编号 编号
    [field_type |-> <<"project", "number">>,
     patterns |-> << <<"xiang3", "mu", "bian", "hao">>,
                   <<"xiang3", "mu", "hao">>,
                   <<"ke", "ti", "bian", "hao">>,
                   <<"bian", "hao">> >>],
    \* funding: 经\s*费 资助金额 项目经费 资金 金额
    [field_type |-> <<"funding">>,
     patterns |-> << <<"jing", "\\s*", "fei">>,
                   <<"zi3", "zhu2", "jin", "e1">>,
                   <<"xiang3", "mu", "jing", "fei">>,
                   <<"zi3", "jin">>,
                   <<"jin", "e1">> >>],
    \* period: 期\s*限 周期 起止时间 时间段 年限
    [field_type |-> <<"period">>,
     patterns |-> << <<"qi", "\\s*", "xian">>,
                   <<"zhou", "qi">>,
                   <<"qi2", "zhi3", "shi", "jian">>,
                   <<"shi", "jian", "duan">>,
                   <<"nian", "xian">> >>],
    \* date: 日\s*期 时间 年月日 申请日期
    [field_type |-> <<"date">>,
     patterns |-> << <<"ri", "\\s*", "qi">>,
                   <<"shi", "jian">>,
                   <<"nian", "yue", "ri">>,
                   <<"shen", "qing", "ri", "qi">> >>],
    \* paper_title: 论文题目 论文名称 文章标题 论文标题 题目
    [field_type |-> <<"paper", "title">>,
     patterns |-> << <<"lun", "wen", "ti", "mu">>,
                   <<"lun", "wen", "ming", "cheng">>,
                   <<"wen", "zhang", "biao", "ti">>,
                   <<"lun", "wen", "biao", "ti">>,
                   <<"ti", "mu">> >>],
    \* journal: 期\s*刊 杂志 发表期刊 刊物 会议
    [field_type |-> <<"journal">>,
     patterns |-> << <<"qi", "\\s*", "kan">>,
                   <<"za", "zhi4">>,
                   <<"fa", "biao2", "qi", "kan">>,
                   <<"kan", "wu2">>,
                   <<"hui", "yi">> >>],
    \* author: 作\s*者 著者 作者姓名 第一作者
    [field_type |-> <<"author">>,
     patterns |-> << <<"zuo", "\\s*", "zhe">>,
                   <<"zhu3", "zhe">>,
                   <<"zuo", "zhe", "xing", "ming">>,
                   <<"di2", "yi2", "zuo", "zhe">> >>],
    \* award_name: 奖项名称 获奖名称 奖励名称 成果名称
    [field_type |-> <<"award", "name">>,
     patterns |-> << <<"jiang", "xiang3", "ming", "cheng">>,
                   <<"huo", "jiang", "ming", "cheng">>,
                   <<"jiang", "li2", "ming", "cheng">>,
                   <<"cheng2", "guo2", "ming", "cheng">> >>],
    \* award_level: 奖励等级 获奖等级 奖项级别 等级
    [field_type |-> <<"award", "level">>,
     patterns |-> << <<"jiang", "li2", "deng", "ji4">>,
                   <<"huo", "jiang", "deng", "ji4">>,
                   <<"jiang", "xiang3", "ji4", "bie">>,
                   <<"deng", "ji4">> >>],
    \* award_date: 获奖时间 获奖日期 颁奖时间
    [field_type |-> <<"award", "date">>,
     patterns |-> << <<"huo", "jiang", "shi", "jian">>,
                   <<"huo", "jiang", "ri", "qi">>,
                   <<"ban", "jiang", "shi", "jian">> >>],
    \* description: 描\s*述 简介 说明 内容 详情 成果简介
    [field_type |-> <<"description">>,
     patterns |-> << <<"miao", "\\s*", "shu2">>,
                   <<"jian3", "jie">>,
                   <<"shuo", "ming2">>,
                   <<"nei", "rong">>,
                   <<"xiang4", "qing2">>,
                   <<"cheng2", "guo2", "jian3", "jie">> >>],
    \* notes: 备\s*注 说明 其他 附注 注释
    [field_type |-> <<"notes">>,
     patterns |-> << <<"bei", "\\s*", "zhu4">>,
                   <<"shuo", "ming2">>,
                   <<"qi3", "ta">>,
                   <<"fu2", "zhu4">>,
                   <<"zhu4", "shi3">> >>],
    \* signature: 签\s*名 签字 申请人签名 负责人签名
    [field_type |-> <<"signature">>,
     patterns |-> << <<"qian", "\\s*", "ming">>,
                   <<"qian", "zi">>,
                   <<"shen", "qing", "ren", "qian", "ming">>,
                   <<"fu", "ze", "ren", "qian", "ming">> >>],
    \* year: 年\s*度 年份 学年 年
    [field_type |-> <<"year">>,
     patterns |-> << <<"nian", "\\s*", "du">>,
                   <<"nian", "fen">>,
                   <<"xue", "nian">>,
                   <<"nian">> >>]
>>

---------------------------------------------------------------------------
(* re.search(pattern, text, re.IGNORECASE) for the pattern syntax the      *)
(* dictionary uses: literal glyphs, \s* and -?                             *)

IsSpace(g) == g \in {" ", "\\t", "\\n"}

UpperCase == <<"A", "E", "I", "L", "M">>
LowerCase == <<"a", "e", "i", "l", "m">>

CaseFold(g) ==
    IF \E i \in 1..Len(UpperCase) : UpperCase[i] = g
    THEN LowerCase[CHOOSE i \in 1..Len(UpperCase) : UpperCase[i] = g]
    ELSE g

RECURSIVE MatchHere(_, _, _, _)
MatchHere(pattern, i, text, j) ==
    IF i > Len(pattern) THEN TRUE
    ELSE IF pattern[i] = "\\s*"
    THEN \/ MatchHere(pattern, i + 1, text, j)
         \/ /\ j <= Len(text)
            /\ IsSpace(text[j])
            /\ MatchHere(pattern, i, text, j + 1)
    ELSE IF pattern[i] = "-?"
    THEN \/ MatchHere(pattern, i + 1, text, j)
         \/ /\ j <= Len(text)
            /\ text[j] = "-"
            /\ MatchHere(pattern, i + 1, text, j + 1)
    ELSE /\ j <= Len(text)
         /\ CaseFold(text[j]) = CaseFold(pattern[i])
         /\ MatchHere(pattern, i + 1, text, j + 1)

re_search(pattern, text) ==
    \E j \in 1..(Len(text) + 1) : MatchHere(pattern, 1, text, j)

\* str.strip()
strip(text) ==
    LET ns == {i \in 1..Len(text) : ~IsSpace(text[i])}
    IN  IF ns = {} THEN <<>>
        ELSE SubSeq(text,
                    CHOOSE i \in ns : \A k \in ns : i <= k,
                    CHOOSE i \in ns : \A k \in ns : k <= i)

\* "for pattern in patterns: if re.search(...): ...; break": the body runs
\* once for a field type iff one of its patterns matches
AnyPatternMatches(patterns, text) ==
    \E p \in 1..Len(patterns) : re_search(patterns[p], text)

\* the field types (indices into field_patterns, in dictionary order) for
\* which the body of the two nested loops runs on text
MatchingTypes(text) ==
    LET Hit(i) == AnyPatternMatches(field_patterns[i].patterns, text)
    IN  SelectSeq([i \in 1..Len(field_patterns) |-> i], Hit)

\* The texts the cells of a loaded document are drawn from:
\* " 姓 名" (name), "出生日期" (birth_date and date), "张三" (no pattern)
\* and the empty text
CellTexts ==
    { <<>>,
      <<" ", "xing", " ", "ming">>,
      <<"chu", "sheng", "ri", "qi">>,
      <<"zhang", "san">> }

\* Texts that match no pattern and hold one of the glyphs of
\* label_indicators: "张：", "张:", "(张", "（张", "张/三", "张、三"
SeparatorTexts ==
    { <<"zhang", "fwcolon">>,
      <<"zhang", ":">>,
      <<"(", "zhang">>,
      <<"fwlparen", "zhang">>,
      <<"zhang", "/", "san">>,
      <<"zhang", "dunhao", "san">> }

\* the texts of the cells of a document of SpecLocator
LocatorTexts == CellTexts \cup SeparatorTexts

\* MatchingTypes, tabulated once for the texts of loaded cells
MatchTable == {<<strip(t), MatchingTypes(strip(t))>> : t \in LocatorTexts}

LabelTypes(text) ==
    IF \E p \in MatchTable : p[1] = text
    THEN (CHOOSE p \in MatchTable : p[1] = text)[2]
    ELSE MatchingTypes(text)

---------------------------------------------------------------------------
(* Python lists and dicts *)

\* seq[i]: defined for -len <= i < len, IndexError otherwise
IndexOK(seq, i) == -Len(seq) <= i /\ i < Len(seq)

At(seq, i) == IF i < 0 THEN seq[Len(seq) + i + 1] ELSE seq[i + 1]

\* table.rows[row].cells[col].text
cell_text(table, row, col) == At(At(table, row), col)

\* variant: the first value assigned to a key is kept
DictSetDefault(d, key, info) ==
    IF \E i \in 1..Len(d) : d[i].key = key
    THEN d
    ELSE Append(d, [key |-> key, info |-> info])

\* d[key] = value on a dict kept as the sequence of its items: an existing
\* key keeps its place, a new key goes to the end
DictSet(d, key, info) ==
    IF \E i \in 1..Len(d) : d[i].key = key
    THEN [i \in 1..Len(d) |->
            IF d[i].key = key THEN [key |-> key, info |-> info] ELSE d[i]]
    ELSE Append(d, [key |-> key, info |-> info])

RECURSIVE DictSetAll(_, _)
DictSetAll(d, items) ==
    IF items = <<>> THEN d
    ELSE DictSetAll(DictSet(d, Head(items).key, Head(items).info), Tail(items))

RECURSIVE Flatten(_)
Flatten(ss) == IF ss = <<>> THEN <<>> ELSE Head(ss) \o Flatten(Tail(ss))

\* str(n) of a natural number, as glyphs
RECURSIVE Digits(_)
Digits(n) ==
    IF n < 10 THEN <<ToString(n)>>
    ELSE Digits(n \div 10) \o <<ToString(n % 10)>>

---------------------------------------------------------------------------
(* Table classifier *)

RECURSIVE label_count(_)
label_count(texts) ==
    IF texts = <<>> THEN 0
    ELSE Len(LabelTypes(Head(texts))) + label_count(Tail(texts))

contains_multiple_labels(texts) == label_count(texts) >= 2

\* variant: no early return for a table without rows
has_no_rows_ignored(table) == FALSE

\* "if len(table.rows) == 0"
has_no_rows(table) == Len(table) = 0

analyze_table_structure(table) ==
    IF has_no_rows(table) THEN "empty"
    ELSE
      LET HasCell(row) == Len(row) > 0
          rows0 == SelectSeq(table, HasCell)
          first_col_texts == [i \in 1..Len(rows0) |-> strip(rows0[i][1])]
          first_row_texts == [c \in 1..Len(table[1]) |-> strip(table[1][c])]
      IN  IF contains_multiple_labels(first_col_texts) THEN "vertical"
          ELSE IF Len(table) > 0 /\ contains_multiple_labels(first_row_texts)
          THEN "horizontal"
          ELSE "mixed"

---------------------------------------------------------------------------
(* Field locator *)

label_indicators == <<"fwcolon", ":", "(", "fwlparen", "/", "dunhao">>

\* variant: only the patterns are tried
is_likely_label_by_pattern(text) == LabelTypes(text) # <<>>

is_likely_label(text) ==
    \/ LabelTypes(text) # <<>>
    \/ \E k \in 1..Len(label_indicators) :
          \E j \in 1..Len(text) : text[j] = label_indicators[k]

\* table.rows[row].cells[col].text.strip() of a neighbour: IndexError when
\* the table has no such cell
probe(table, row, col) ==
    IF IndexOK(table, row) /\ IndexOK(At(table, row), col)
    THEN [raised |-> FALSE, text |-> strip(cell_text(table, row, col))]
    ELSE [raised |-> TRUE, text |-> <<>>]

\* "if label_col + 1 < len(table.rows[label_row].cells)"
right_exists(table, label_row, label_col) ==
    label_col + 1 < Len(At(table, label_row))

\* variant: only the number of rows is tested before the cell below is read
below_exists_rows_only(table, label_row, label_col) ==
    label_row + 1 < Len(table)

\* "if label_row + 1 < len(table.rows) and
\*     label_col < len(table.rows[label_row + 1].cells)"
below_exists(table, label_row, label_col) ==
    label_row + 1 < Len(table) /\ label_col < Len(At(table, label_row + 1))

\* variant: a neighbour that exists is taken whatever its text
find_value_probe_any_text(table, label_row, label_col) ==
    [raised |-> FALSE,
     location |->
        IF right_exists(table, label_row, label_col)
        THEN <<label_row, label_col + 1>>
        ELSE IF below_exists(table, label_row, label_col)
        THEN <<label_row + 1, label_col>>
        ELSE <<label_row, label_col>>]

\* find_value_location: the location returned, or raised when a neighbour
\* that is read does not exist
find_value_probe(table, label_row, label_col) ==
    LET right == probe(table, label_row, label_col + 1)
        below == probe(table, label_row + 1, label_col)
        Raised == [raised |-> TRUE, location |-> <<>>]
        Found(row, col) == [raised |-> FALSE, location |-> <<row, col>>]
    IN  IF right_exists(table, label_row, label_col) /\ right.raised
        THEN Raised
        ELSE IF /\ right_exists(table, label_row, label_col)
                /\ ~is_likely_label(right.text)
        THEN Found(label_row, label_col + 1)
        ELSE IF below_exists(table, label_row, label_col) /\ below.raised
        THEN Raised
        ELSE IF /\ below_exists(table, label_row, label_col)
                /\ ~is_likely_label(below.text)
        THEN Found(label_row + 1, label_col)
        ELSE Found(label_row, label_col)

find_value_location(table, label_row, label_col) ==
    find_value_probe(table, label_row, label_col).location

\* the assignments to field_mapping made for one cell, in order
VerticalCellItems(table, row_idx, col_idx) ==
    LET label_text == strip(cell_text(table, row_idx, col_idx))
        mt == LabelTypes(label_text)
    IN  [k \in 1..Len(mt) |->
           [key  |-> field_patterns[mt[k]].field_type,
            info |-> [label_cell |-> <<row_idx, col_idx>>,
                      value_cell |-> <<row_idx, col_idx + 1>>,
                      label_text |-> label_text,
                      type       |-> "vertical"]]]

identify_vertical_fields(table) ==
    DictSetAll(<<>>,
        Flatten([r \in 1..Len(table) |->
            Flatten([c \in 1..(Len(table[r]) - 1) |->
                VerticalCellItems(table, r - 1, c - 1)])]))

\* variant: only the first row under the header
value_cells_first_row(table, col_idx) == << <<1, col_idx>> >>

\* [(row_idx, col_idx) for row_idx in range(1, len(table.rows))]
value_cells_of_column(table, col_idx) ==
    [r \in 1..(Len(table) - 1) |-> <<r, col_idx>>]

HorizontalCellItems(table, col_idx) ==
    LET header_text == strip(cell_text(table, 0, col_idx))
        mt == LabelTypes(header_text)
    IN  [k \in 1..Len(mt) |->
           [key  |-> field_patterns[mt[k]].field_type \o <<ToString(col_idx)>>,
            info |-> [label_cell  |-> <<0, col_idx>>,
                      value_cells |-> value_cells_of_column(table, col_idx),
                      label_text  |-> header_text,
                      type        |-> "horizontal"]]]

\* returns the field mapping and the headers it leaves in table_info
identify_horizontal_fields(table) ==
    IF Len(table) < 2
    THEN [field_mapping |-> <<>>, headers |-> <<>>]
    ELSE [field_mapping |->
              DictSetAll(<<>>,
                  Flatten([c \in 1..Len(table[1]) |->
                      HorizontalCellItems(table, c - 1)])),
          headers |-> [c \in 1..Len(table[1]) |-> strip(table[1][c])]]

MixedCellItems(table, row_idx, col_idx) ==
    LET text == strip(cell_text(table, row_idx, col_idx))
        mt == LabelTypes(text)
    IN  IF text = <<>> THEN <<>>
        ELSE [k \in 1..Len(mt) |->
               [key  |-> field_patterns[mt[k]].field_type
                            \o <<ToString(row_idx), ToString(col_idx)>>,
                info |-> [label_cell |-> <<row_idx, col_idx>>,
                          value_cell |-> find_value_location(table, row_idx, col_idx),
                          label_text |-> text,
                          type       |-> "mixed"]]]

identify_mixed_fields(table) ==
    DictSetAll(<<>>,
        Flatten([r \in 1..Len(table) |->
            Flatten([c \in 1..Len(table[r]) |->
                MixedCellItems(table, r - 1, c - 1)])]))

\* identify_mixed_fields raises iff find_value_location does for a cell
\* it is called for
identify_mixed_raises(table) ==
    \E r \in 1..Len(table) : \E c \in 1..Len(table[r]) :
        LET text == strip(cell_text(table, r - 1, c - 1))
        IN  /\ text # <<>>
            /\ LabelTypes(text) # <<>>
            /\ find_value_probe(table, r - 1, c - 1).raised

\* the analysis of a table raises
analyze_table_raises(table) ==
    /\ analyze_table_structure(table) \notin {"vertical", "horizontal"}
    /\ identify_mixed_raises(table)

identify_table_fields(table, structure) ==
    IF structure = "vertical"
    THEN [field_mapping |-> identify_vertical_fields(table), headers |-> <<>>]
    ELSE IF structure = "horizontal"
    THEN identify_horizontal_fields(table)
    ELSE [field_mapping |-> identify_mixed_fields(table), headers |-> <<>>]

\* len(table.columns): the width of the table's grid, taken here as the
\* width of its widest row
NumColumns(table) ==
    IF \A r \in 1..Len(table) : Len(table[r]) = 0 THEN 0
    ELSE CHOOSE n \in {Len(table[r]) : r \in 1..Len(table)} :
            \A r \in 1..Len(table) : Len(table[r]) <= n

analyze_table(idx, table) ==
    LET structure == analyze_table_structure(table)
        fields == identify_table_fields(table, structure)
    IN  [index         |-> idx,
         rows          |-> Len(table),
         cols          |-> NumColumns(table),
         headers       |-> fields.headers,
         field_mapping |-> fields.field_mapping,
         structure     |-> structure]

analyze_document(tables) ==
    [i \in 1..Len(tables) |-> analyze_table(i - 1, tables[i])]

---------------------------------------------------------------------------
(* Form filler *)

\* str(value): a value of data is a string or an integer
Str(value) ==
    IF value.t = "int"
    THEN IF value.n < 0 THEN <<"-">> \o Digits(-value.n) ELSE Digits(value.n)
    ELSE value.s

\* body of the try block of set_cell_value: the cell lookup raises
\* IndexError on a coordinate outside the table, else the text is replaced
write_cell(table, row, col, value) ==
    IF IndexOK(table, row) /\ IndexOK(At(table, row), col)
    THEN LET r == IF row < 0 THEN Len(table) + row + 1 ELSE row + 1
             c == IF col < 0 THEN Len(table[r]) + col + 1 ELSE col + 1
         IN  [table |-> [table EXCEPT ![r][c] = value], raised |-> FALSE]
    ELSE [table |-> table, raised |-> TRUE]

\* variant: no except clause, the IndexError propagates
set_cell_value_uncaught(table, row, col, value) == write_cell(table, row, col, value)

\* try: ... except Exception as e: print(...)
set_cell_value(table, row, col, value) ==
    LET res == write_cell(table, row, col, value)
    IN  IF res.raised THEN [table |-> table, raised |-> FALSE] ELSE res

\* field_key.split('_')[0]
base_field_type(field_key) == <<Head(field_key)>>

\* variant: the last row of the column instead of the first
last_available_row(field_info) == field_info.value_cells[Len(field_info.value_cells)]

\* "Fill first available row": field_info['value_cells'][0]
first_available_row(field_info) == field_info.value_cells[1]

\* variant: the value alone, whichever cell is written
mixed_text_value_only(field_info, value) == value

\* the text written for a field of type mixed: label and value composed
\* when the value cell is the label cell, else the value
mixed_text(field_info, value) ==
    IF field_info.value_cell = field_info.label_cell
    THEN field_info.label_text \o <<"fwcolon">> \o value
    ELSE value

\* one iteration of the loop over field_mapping.items(); st is
\* [tables, filled_count, raised], t the table (1-based)
fill_field(st, t, field_key, field_info, d) ==
    LET base == base_field_type(field_key)
        table == st.tables[t]
        Done(res) ==
            IF res.raised
            THEN [st EXCEPT !.raised = TRUE]
            ELSE [tables       |-> [st.tables EXCEPT ![t] = res.table],
                  filled_count |-> st.filled_count + 1,
                  raised       |-> FALSE]
    IN  IF st.raised \/ base \notin DOMAIN d THEN st
        ELSE LET value == Str(d[base])
             IN  IF field_info.type = "vertical"
                 THEN Done(set_cell_value(table, field_info.value_cell[1],
                                          field_info.value_cell[2], value))
                 ELSE IF field_info.type = "horizontal"
                 THEN IF field_info.value_cells # <<>>
                      THEN Done(set_cell_value(table,
                                    first_available_row(field_info)[1],
                                    first_available_row(field_info)[2], value))
                      ELSE st
                 ELSE IF field_info.type = "mixed"
                 THEN Done(set_cell_value(table, field_info.value_cell[1],
                               field_info.value_cell[2],
                               mixed_text(field_info, value)))
                 ELSE st

RECURSIVE fill_fields(_, _, _, _)
fill_fields(st, t, items, d) ==
    IF items = <<>> THEN st
    ELSE fill_fields(fill_field(st, t, Head(items).key, Head(items).info, d),
                     t, Tail(items), d)

RECURSIVE fill_tables(_, _, _, _)
fill_tables(st, infos, t, d) ==
    IF t > Len(infos) THEN st
    ELSE fill_tables(fill_fields(st, t, infos[t].field_mapping, d),
                     infos, t + 1, d)

fill_form_result(tables, infos, d) ==
    fill_tables([tables |-> tables, filled_count |-> 0, raised |-> FALSE],
                infos, 1, d)

---------------------------------------------------------------------------
(* Documents and call arguments the model explores *)

\* the rows of minw to maxw cells
Rows(texts, minw, maxw) == UNION {[1..w -> texts] : w \in minw..maxw}

Min(a, b) == IF a <= b THEN a ELSE b

\* the texts of the cells of a document of several tables: empty or a label
DocTexts == {text \in CellTexts : text = <<>> \/ MatchingTypes(strip(text)) # <<>>}

DataKeys == { <<"name">>, <<"birth", "date">>, <<"birth">> }

\* "李四" and 7
Values ==
    { [t |-> "str", s |-> <<"li", "si">>],
      [t |-> "int", n |-> 7] }

Datas ==
    UNION {[S -> Values] : S \in {S \in SUBSET DataKeys : Cardinality(S) <= MaxKeys}}

---------------------------------------------------------------------------
(* The state machine *)

\* state after SmartFormDetector(template_path) on a document with the
\* given tables: load, then analyze_document(); an exception of the analysis
\* leaves the constructor and no detector exists
Constructed(tables) ==
    LET failed == \E i \in 1..Len(tables) : analyze_table_raises(tables[i])
    IN  /\ doc = tables
        /\ tables_info = IF failed THEN <<>> ELSE analyze_document(tables)
        /\ data = <<>>
        /\ filled_count = 0
        /\ status = IF failed THEN "load_failed" ELSE "loaded"
        /\ calls = 0

\* the documents loaded: after the tables of done comes table, which may
\* get rows more rows, then more other tables; cells is the number of
\* cells still to place, shape = [texts, minw, rows] what a table is made of
RECURSIVE Loaded(_, _, _, _, _, _)
Loaded(done, table, more, rows, cells, shape) ==
    \/ /\ more = 0
       /\ Constructed(Append(done, table))
    \/ /\ more > 0
       /\ Loaded(Append(done, table), <<>>, more - 1, shape.rows, cells, shape)
    \/ /\ rows > 0
       /\ \E row \in Rows(shape.texts, shape.minw, Min(MaxCols, cells)) :
              Loaded(done, Append(table, row), more, rows - 1,
                     cells - Len(row), shape)

\* a document of one table, any row of which may be without cells
Init ==
    /\ \E n \in {1} :
          Loaded(<<>>, <<>>, n - 1, MaxRows, MaxCells,
                 [texts |-> CellTexts, minw |-> 0, rows |-> MaxRows])
    /\ limit = 1

\* a document of several tables, every row of which has a cell
InitDocs ==
    /\ \E n \in 2..DocTables :
          Loaded(<<>>, <<>>, n - 1, DocRows, DocCells,
                 [texts |-> DocTexts, minw |-> 1, rows |-> DocRows])
    /\ limit = 1

\* a document of one small table, on whose detector fill_form is called
\* several times
InitCalls ==
    /\ \E n \in {1} :
          Loaded(<<>>, <<>>, n - 1, CallRows, CallCells,
                 [texts |-> CellTexts, minw |-> 1, rows |-> CallRows])
    /\ limit = MaxCalls

\* a document of one small table whose cells may also hold a text with a
\* separator glyph
InitLocator ==
    /\ \E n \in {1} :
          Loaded(<<>>, <<>>, n - 1, LocRows, LocCells,
                 [texts |-> LocatorTexts, minw |-> 1, rows |-> LocRows])
    /\ limit = 1

\* variant: the analysis is run again on the tables as filled
analysis_rederived(infos, tables) == analyze_document(tables)

\* fill_form reads self.tables_info and never assigns it or its items
analysis_after_fill(infos, tables) == infos

\* detector.fill_form(d)
fill_form(d) ==
    LET res == fill_form_result(doc, tables_info, d)
    IN  /\ status # "load_failed"
        /\ calls < limit
        /\ calls' = calls + 1
        /\ doc' = res.tables
        /\ data' = d
        /\ filled_count' = IF res.raised THEN filled_count ELSE res.filled_count
        /\ status' = IF res.raised THEN "raised" ELSE "returned"
        /\ tables_info' = analysis_after_fill(tables_info, res.tables)
        /\ UNCHANGED limit

Next == \E d \in Datas : fill_form(d)

\* documents of one table, one call
Spec == Init /\ [][Next]_vars

\* documents of several tables, one call
SpecDocs == InitDocs /\ [][Next]_vars

\* several calls on one detector
SpecCalls == InitCalls /\ [][Next]_vars

\* documents of one table with separator texts, one call
SpecLocator == InitLocator /\ [][Next]_vars

---------------------------------------------------------------------------
(* Vocabulary of the properties *)

Mapping(t) == tables_info[t].field_mapping

\* the field identifier a mapping key was formed from: the key without the
\* position suffix its layout appends (none, _col, _row_col)
FieldIdOf(entry) ==
    LET n == IF entry.info.type = "vertical" THEN 0
             ELSE IF entry.info.type = "horizontal" THEN 1 ELSE 2
    IN  SubSeq(entry.key, 1, Len(entry.key) - n)

\* the cell fill_form writes for a field
TargetOf(info) ==
    IF info.type = "horizontal" THEN info.value_cells[1] ELSE info.value_cell

InTable(table, rc) ==
    /\ rc[1] \in 0..(Len(table) - 1)
    /\ rc[2] \in 0..(Len(table[rc[1] + 1]) - 1)

TextAt(table, rc) == table[rc[1] + 1][rc[2] + 1]

\* field i of table t is one fill_form(d) attempts to write
Attempted(t, i, d) == base_field_type(Mapping(t)[i].key) \in DOMAIN d

\* no field later in the mapping of table t is written to the same cell
LastWriter(t, i, d) ==
    ~ \E j \in (i + 1)..Len(Mapping(t)) :
          /\ Attempted(t, j, d)
          /\ TargetOf(Mapping(t)[j].info) = TargetOf(Mapping(t)[i].info)

\* the text a write of value v for the field leaves in its cell
ExpectedText(info, v) ==
    IF info.type = "mixed" /\ info.value_cell = info.label_cell
    THEN info.label_text \o <<"fwcolon">> \o Str(v)
    ELSE Str(v)

Contains(text, sub) ==
    \E k \in 0..(Len(text) - Len(sub)) : SubSeq(text, k + 1, k + Len(sub)) = sub

\* the field identifiers located in table t, and in any table
LocatedIn(t) == {FieldIdOf(Mapping(t)[i]) : i \in 1..Len(Mapping(t))}

LocatedIds == UNION {LocatedIn(t) : t \in 1..Len(tables_info)}

---------------------------------------------------------------------------
(* C1 *)

\* C1: after fill_form(data), every located field whose field identifier F
\* (the key without its position suffix, underscores of F included) is a key
\* of data holds the text written for data[F] in its value cell, unless a
\* later field of the mapping is written to the same cell.
C1_FillWritesEveryLocatedIdentifier ==
    status = "returned" =>
        \A t \in 1..Len(doc) : \A i \in 1..Len(Mapping(t)) :
            LET e == Mapping(t)[i]
                F == FieldIdOf(e)
                later == \E j \in (i + 1)..Len(Mapping(t)) :
                            /\ TargetOf(Mapping(t)[j].info) = TargetOf(e.info)
                            /\ \/ FieldIdOf(Mapping(t)[j]) \in DOMAIN data
                               \/ Attempted(t, j, data)
            IN  (F \in DOMAIN data /\ InTable(doc[t], TargetOf(e.info)) /\ ~later)
                    => TextAt(doc[t], TargetOf(e.info)) = ExpectedText(e.info, data[F])

---------------------------------------------------------------------------
(* C2 *)

\* C2: a fill_form call whose data has no key that is the field identifier
\* of a located field changes no cell text and returns 0.
C2_UnlocatedKeysChangeNothing ==
    [][ (calls' = calls + 1 /\ DOMAIN data' \cap LocatedIds = {})
            => (doc' = doc /\ filled_count' = 0 /\ status' = "returned") ]_vars

---------------------------------------------------------------------------
(* C3 *)

ValueCellsOf(info) ==
    IF info.type = "horizontal"
    THEN {info.value_cells[k] : k \in 1..Len(info.value_cells)}
    ELSE {info.value_cell}

\* C3: after fill_form({F: v}) with F located in a table, re-running the
\* locator on the table as it now is gives a binding for F with a value cell
\* whose text contains str(v).
C3_RoundTrip ==
    status = "returned" =>
        \A t \in 1..Len(doc) : \A F \in DOMAIN data :
            (DOMAIN data = {F} /\ F \in LocatedIn(t)) =>
                LET again == analyze_table(t - 1, doc[t]).field_mapping
                IN  \E j \in 1..Len(again) :
                        /\ FieldIdOf(again[j]) = F
                        /\ \E rc \in ValueCellsOf(again[j].info) :
                              /\ InTable(doc[t], rc)
                              /\ Contains(TextAt(doc[t], rc), Str(data[F]))

---------------------------------------------------------------------------
(* C4 *)

\* the fields whose write was attempted and found its cell
SucceededWrites ==
    {ti \in UNION {{<<t, i>> : i \in 1..Len(Mapping(t))} : t \in 1..Len(doc)} :
        /\ Attempted(ti[1], ti[2], data)
        /\ InTable(doc[ti[1]], TargetOf(Mapping(ti[1])[ti[2]].info))}

\* C4: the value fill_form returns is the number of located fields whose
\* cell write succeeded; a field whose write failed is not counted.
C4_CountsSuccessfulWritesOnly ==
    status = "returned" => filled_count = Cardinality(SucceededWrites)

---------------------------------------------------------------------------
(* C5, C6 *)

MatchesSomePattern(text) == LabelTypes(text) # <<>>

\* number of texts of the sequence that match at least one pattern
RefLabelCount(texts) ==
    Cardinality({k \in 1..Len(texts) : MatchesSomePattern(strip(texts[k]))})

RefFirstColumn(table) ==
    LET HasCell(row) == Len(row) > 0
        rows0 == SelectSeq(table, HasCell)
    IN  [k \in 1..Len(rows0) |-> rows0[k][1]]

RefClassification(table) ==
    IF Len(table) = 0 THEN "empty"
    ELSE IF RefLabelCount(RefFirstColumn(table)) >= 2 THEN "vertical"
    ELSE IF RefLabelCount(table[1]) >= 2 THEN "horizontal"
    ELSE "mixed"

\* C5: the classification of every table at load is that of the reference
\* rule, in which each text counts at most once.
C5_ClassificationIsReferenceRule ==
    calls = 0 =>
        \A t \in 1..Len(doc) : tables_info[t].structure = RefClassification(doc[t])

\* C6: a table of exactly one row and one column classifies as mixed,
\* whatever the text of its cell.
C6_SingleCellTableIsMixed ==
    calls = 0 =>
        \A t \in 1..Len(doc) :
            (Len(doc[t]) = 1 /\ Len(doc[t][1]) = 1)
                => tables_info[t].structure = "mixed"

---------------------------------------------------------------------------
(* C7 *)

\* C7: a cell is recorded as the label of one field identifier only, the
\* first in dictionary order whose patterns match its text.
C7_FirstMatchingIdentifierOnly ==
    \A t \in 1..Len(tables_info) : \A i \in 1..Len(Mapping(t)) :
        LET e == Mapping(t)[i]
        IN  /\ FieldIdOf(e) =
                  field_patterns[Head(LabelTypes(e.info.label_text))].field_type
            /\ \A j \in 1..Len(Mapping(t)) :
                  Mapping(t)[j].info.label_cell = e.info.label_cell => j = i

---------------------------------------------------------------------------
(* C8 *)

\* C8: a fill_form call writes a horizontal field whose base identifier is
\* a key of data into row 1 of its column only: the header and every row
\* from 2 on keep their text in that column, and the cell of row 1, when
\* the row has it, holds str(value) (that of the last such field of the
\* column).
C8_HorizontalFirstRowOnly ==
    [][ calls' = calls + 1 =>
          \A t \in 1..Len(doc) : \A i \in 1..Len(Mapping(t)) :
              LET info == Mapping(t)[i].info
                  c == info.label_cell[2]
                  base == base_field_type(Mapping(t)[i].key)
              IN  (info.type = "horizontal" /\ base \in DOMAIN data') =>
                    /\ \A r \in 0..(Len(doc[t]) - 1) :
                          (r # 1 /\ InTable(doc[t], <<r, c>>))
                              => TextAt(doc'[t], <<r, c>>) = TextAt(doc[t], <<r, c>>)
                    /\ (InTable(doc[t], <<1, c>>) /\ LastWriter(t, i, data'))
                          => TextAt(doc'[t], <<1, c>>) = Str(data'[base]) ]_vars

\* a horizontal table of three rows after a call that filled one of its
\* columns: row 1 holds the value, the header and row 2 other texts
C8_Witness ==
    /\ status = "returned"
    /\ \E t \in 1..Len(doc) : \E i \in 1..Len(Mapping(t)) :
          LET info == Mapping(t)[i].info
              c == info.label_cell[2]
              v == Str(data[base_field_type(Mapping(t)[i].key)])
          IN  /\ info.type = "horizontal"
              /\ Attempted(t, i, data)
              /\ Len(info.value_cells) >= 2
              /\ InTable(doc[t], <<1, c>>) /\ InTable(doc[t], <<2, c>>)
              /\ TextAt(doc[t], <<1, c>>) = v
              /\ TextAt(doc[t], <<2, c>>) # v
              /\ TextAt(doc[t], <<2, c>>) # <<>>
              /\ TextAt(doc[t], <<0, c>>) # v

---------------------------------------------------------------------------
(* C9 *)

\* C9: a fill_form call leaves in the value cell of a mixed field whose
\* base identifier is a key of data "<label text>:<str(value)>" (full-width
\* colon) when the value cell is the label cell, and str(value) otherwise
\* (unless a later field is written to the same cell); when the two cells
\* differ the label cell keeps its text.
C9_MixedFieldText ==
    [][ calls' = calls + 1 =>
          \A t \in 1..Len(doc) : \A i \in 1..Len(Mapping(t)) :
              LET info == Mapping(t)[i].info
                  base == base_field_type(Mapping(t)[i].key)
              IN  (info.type = "mixed" /\ base \in DOMAIN data') =>
                    /\ LastWriter(t, i, data') =>
                          TextAt(doc'[t], info.value_cell) =
                              IF info.value_cell = info.label_cell
                              THEN info.label_text \o <<"fwcolon">> \o Str(data'[base])
                              ELSE Str(data'[base])
                    /\ info.value_cell # info.label_cell =>
                          TextAt(doc'[t], info.label_cell) = TextAt(doc[t], info.label_cell) ]_vars

\* a mixed table after a call that filled two of its fields, one whose
\* value cell is its label cell and one whose value cell is a neighbour
C9_Witness ==
    /\ status = "returned"
    /\ \E t \in 1..Len(doc) : \E i, j \in 1..Len(Mapping(t)) :
          LET a == Mapping(t)[i].info
              b == Mapping(t)[j].info
          IN  /\ a.type = "mixed" /\ b.type = "mixed"
              /\ Attempted(t, i, data) /\ Attempted(t, j, data)
              /\ a.value_cell = a.label_cell
              /\ TextAt(doc[t], a.value_cell) =
                    a.label_text \o <<"fwcolon">>
                        \o Str(data[base_field_type(Mapping(t)[i].key)])
              /\ b.value_cell # b.label_cell
              /\ TextAt(doc[t], b.value_cell) =
                    Str(data[base_field_type(Mapping(t)[j].key)])
              /\ strip(TextAt(doc[t], b.label_cell)) = b.label_text

---------------------------------------------------------------------------
(* C10 *)

\* C10: fill_form never raises, and after it every field whose base
\* identifier is a key of data and whose cell exists holds the text written
\* for it (unless a later field is written to the same cell), whichever
\* other writes of the call failed.
C10_FailureIsolation ==
    /\ status # "raised"
    /\ status = "returned" =>
          \A t \in 1..Len(doc) : \A i \in 1..Len(Mapping(t)) :
              LET e == Mapping(t)[i]
              IN  (/\ Attempted(t, i, data)
                   /\ InTable(doc[t], TargetOf(e.info))
                   /\ LastWriter(t, i, data))
                      => TextAt(doc[t], TargetOf(e.info)) =
                            ExpectedText(e.info, data[base_field_type(e.key)])

\* a call in which the write of one field failed on a coordinate outside
\* its row, while another field of the same table and a field of a later
\* table were written
C10_Witness ==
    /\ status = "returned"
    /\ \E t1, t2 \in 1..Len(doc) : \E i, i2 \in 1..Len(Mapping(t1)) :
          \E j \in 1..Len(Mapping(t2)) :
              /\ t1 < t2
              /\ Attempted(t1, i, data)
              /\ ~InTable(doc[t1], TargetOf(Mapping(t1)[i].info))
              /\ Attempted(t1, i2, data)
              /\ InTable(doc[t1], TargetOf(Mapping(t1)[i2].info))
              /\ TextAt(doc[t1], TargetOf(Mapping(t1)[i2].info)) =
                    ExpectedText(Mapping(t1)[i2].info,
                                 data[base_field_type(Mapping(t1)[i2].key)])
              /\ Attempted(t2, j, data)
              /\ InTable(doc[t2], TargetOf(Mapping(t2)[j].info))
              /\ TextAt(doc[t2], TargetOf(Mapping(t2)[j].info)) =
                    ExpectedText(Mapping(t2)[j].info,
                                 data[base_field_type(Mapping(t2)[j].key)])

---------------------------------------------------------------------------
(* C11 *)

Structures == {"empty", "vertical", "horizontal", "mixed"}

\* C11: the analysis of every table at load completes without raising, its
\* classification is one of empty, vertical, horizontal and mixed, and the
\* value cell recorded for a field of a table handled by the mixed strategy
\* is a cell of the table: a right or below neighbour that does not exist
\* is never taken.
C11_AnalysisIsTotal ==
    /\ status # "load_failed"
    /\ Len(tables_info) = Len(doc)
    /\ \A t \in 1..Len(doc) :
          /\ tables_info[t].structure \in Structures
          /\ \A i \in 1..Len(Mapping(t)) :
                Mapping(t)[i].info.type = "mixed"
                    => InTable(doc[t], Mapping(t)[i].info.value_cell)

\* a loaded table with a row without cells and rows of different widths,
\* in which a label has no right neighbour and the row below is too short
\* to hold a cell under it: the label cell itself is the value cell
C11_Witness ==
    /\ status = "loaded"
    /\ \E t \in 1..Len(doc) :
          /\ \E r \in 1..Len(doc[t]) : Len(doc[t][r]) = 0
          /\ \E i \in 1..Len(Mapping(t)) :
                LET info == Mapping(t)[i].info
                    r == info.label_cell[1]
                    c == info.label_cell[2]
                IN  /\ info.type = "mixed"
                    /\ c + 1 >= Len(doc[t][r + 1])
                    /\ r + 1 < Len(doc[t])
                    /\ c >= Len(doc[t][r + 2])
                    /\ info.value_cell = info.label_cell

---------------------------------------------------------------------------
(* C12 *)

\* C12: a table without rows is classified empty and no field is located
\* in it.
C12_NoRowsIsEmpty ==
    status # "load_failed" =>
        \A t \in 1..Len(doc) :
            Len(doc[t]) = 0 =>
                /\ tables_info[t].structure = "empty"
                /\ tables_info[t].field_mapping = <<>>

\* a loaded document with a table without rows, analysed as 0 rows
C12_Witness ==
    /\ status = "loaded"
    /\ \E t \in 1..Len(doc) :
          /\ doc[t] = <<>>
          /\ tables_info[t].rows = 0
          /\ tables_info[t].structure = "empty"

---------------------------------------------------------------------------
(* C13 *)

\* C13: no fill_form call, whichever calls came before it, changes the
\* stored analysis: dimensions, classification and field mapping of every
\* table stay those computed at load.
C13_AnalysisNeverChanges == [][tables_info' = tables_info]_vars

\* after a second call on the same detector, the tables as filled would be
\* analysed differently from the analysis that is stored
C13_Witness ==
    /\ status = "returned"
    /\ calls > 1
    /\ doc # <<>>
    /\ \E t \in 1..Len(doc) : Mapping(t) # <<>>
    /\ analyze_document(doc) # tables_info

---------------------------------------------------------------------------
(* C14 *)

\* the mapping of table t binds key F_c to label cell (0, c) and to the
\* cells of column c in the rows from 1 on, in row order
HorizontalBinding(t, F, c) ==
    \E i \in 1..Len(Mapping(t)) :
        /\ Mapping(t)[i].key = F \o <<ToString(c)>>
        /\ Mapping(t)[i].info.type = "horizontal"
        /\ Mapping(t)[i].info.label_cell = <<0, c>>
        /\ Mapping(t)[i].info.value_cells =
              [r \in 1..(Len(doc[t]) - 1) |-> <<r, c>>]

\* every header of table t that matches a field type has its binding, and
\* every label recorded is in row 0
HorizontalComplete(t) ==
    /\ \A c \in 0..(Len(doc[t][1]) - 1) :
          LET mt == LabelTypes(strip(doc[t][1][c + 1]))
          IN  \A k \in 1..Len(mt) :
                  HorizontalBinding(t, field_patterns[mt[k]].field_type, c)
    /\ \A i \in 1..Len(Mapping(t)) : Mapping(t)[i].info.label_cell[1] = 0

\* C14 as stated: in every table classified horizontal, every header that
\* matches a pattern of F is bound under the key F_c to label cell (0, c)
\* and to value cells (r, c) for every row r >= 1 in row order, and no cell
\* outside row 0 is a label.
C14_HorizontalBindings ==
    status = "loaded" =>
        \A t \in 1..Len(doc) :
            tables_info[t].structure = "horizontal" => HorizontalComplete(t)

\* C14, amended: the same for every table classified horizontal that has a
\* row under its header; in a table classified horizontal that has the
\* header row only, no field is located.
C14_HorizontalBindingsWithDataRow ==
    status = "loaded" =>
        \A t \in 1..Len(doc) :
            tables_info[t].structure = "horizontal" =>
                IF Len(doc[t]) > 1
                THEN HorizontalComplete(t)
                ELSE Mapping(t) = <<>>

\* a loaded horizontal table of three rows whose header matches in two
\* columns: each binding lists two value cells
C14_Witness ==
    /\ status = "loaded"
    /\ \E t \in 1..Len(doc) :
          /\ tables_info[t].structure = "horizontal"
          /\ Len(doc[t]) > 2
          /\ \E i, j \in 1..Len(Mapping(t)) :
                /\ Mapping(t)[i].info.label_cell # Mapping(t)[j].info.label_cell
                /\ Len(Mapping(t)[i].info.value_cells) > 1
                /\ Len(Mapping(t)[j].info.value_cells) > 1

---------------------------------------------------------------------------
(* C15 *)

\* cell (r, c) of table t is not the last of its row and its text matches
\* a pattern of F
VerticalCandidate(t, F, r, c) ==
    /\ r \in 0..(Len(doc[t]) - 1)
    /\ c \in 0..(Len(doc[t][r + 1]) - 2)
    /\ LET mt == LabelTypes(strip(TextAt(doc[t], <<r, c>>)))
       IN  \E k \in 1..Len(mt) : field_patterns[mt[k]].field_type = F

\* (r, c) comes no later than (r2, c2) in the row-major scan
ScannedBefore(r, c, r2, c2) == r < r2 \/ (r = r2 /\ c <= c2)

FieldTypes == {field_patterns[k].field_type : k \in 1..Len(field_patterns)}

\* C15: in a table classified vertical, every key of the mapping is a bare
\* field identifier F, bound to the last cell of the row-major scan that is
\* not the last of its row and matches F, with the cell to its right as
\* value cell; every F with such a cell has its key; a cell that is the
\* last of its row is never a label and every value cell is in its row.
C15_VerticalLastMatchWins ==
    status = "loaded" =>
        \A t \in 1..Len(doc) :
            tables_info[t].structure = "vertical" =>
                /\ \A i \in 1..Len(Mapping(t)) :
                      LET e == Mapping(t)[i]
                          r == e.info.label_cell[1]
                          c == e.info.label_cell[2]
                      IN  /\ e.key \in FieldTypes
                          /\ e.info.type = "vertical"
                          /\ VerticalCandidate(t, e.key, r, c)
                          /\ e.info.value_cell = <<r, c + 1>>
                          /\ InTable(doc[t], e.info.value_cell)
                          /\ e.info.label_text = strip(TextAt(doc[t], <<r, c>>))
                          /\ \A r2 \in 0..(Len(doc[t]) - 1) :
                                \A c2 \in 0..(Len(doc[t][r2 + 1]) - 2) :
                                    VerticalCandidate(t, e.key, r2, c2)
                                        => ScannedBefore(r2, c2, r, c)
                          /\ \A j \in 1..Len(Mapping(t)) :
                                Mapping(t)[j].key = e.key => j = i
                /\ \A F \in FieldTypes :
                      (\E r \in 0..(Len(doc[t]) - 1) :
                          \E c \in 0..(Len(doc[t][r + 1]) - 2) :
                              VerticalCandidate(t, F, r, c))
                          => \E i \in 1..Len(Mapping(t)) : Mapping(t)[i].key = F

\* a loaded vertical table in which two rows hold a label of the same field
\* type, the later one bound, and a matching cell that is the last of its
\* row is not a label
C15_Witness ==
    /\ status = "loaded"
    /\ \E t \in 1..Len(doc) :
          /\ tables_info[t].structure = "vertical"
          /\ \E i \in 1..Len(Mapping(t)) :
                LET e == Mapping(t)[i]
                IN  /\ e.info.label_cell[1] > 0
                    /\ VerticalCandidate(t, e.key, 0, 0)
                    /\ \E r \in 0..(Len(doc[t]) - 1) :
                          /\ Len(doc[t][r + 1]) > 1
                          /\ LabelTypes(strip(TextAt(doc[t],
                                  <<r, Len(doc[t][r + 1]) - 1>>))) # <<>>

---------------------------------------------------------------------------
(* C16 *)

SeparatorGlyphs == {"fwcolon", ":", "(", "fwlparen", "/", "dunhao"}

\* the text matches a pattern of the dictionary or holds a separator glyph
RefLooksLikeLabel(text) ==
    \/ MatchesSomePattern(text)
    \/ \E j \in 1..Len(text) : text[j] \in SeparatorGlyphs

\* the cell exists and its text does not look like a label
RefUsable(table, rc) ==
    InTable(table, rc) /\ ~RefLooksLikeLabel(strip(TextAt(table, rc)))

RefValueLocation(table, r, c) ==
    IF RefUsable(table, <<r, c + 1>>) THEN <<r, c + 1>>
    ELSE IF RefUsable(table, <<r + 1, c>>) THEN <<r + 1, c>>
    ELSE <<r, c>>

\* C16: in a table handled by the mixed strategy, every non-empty cell
\* (r, c) whose text matches a pattern of F is recorded under F_r_c with, as
\* value cell, the right neighbour if it exists and does not look like a
\* label, else the neighbour below under the same condition, else (r, c).
C16_MixedValueLocation ==
    status = "loaded" =>
        \A t \in 1..Len(doc) :
            tables_info[t].structure \notin {"vertical", "horizontal"} =>
                \A r \in 0..(Len(doc[t]) - 1) :
                    \A c \in 0..(Len(doc[t][r + 1]) - 1) :
                        LET text == strip(TextAt(doc[t], <<r, c>>))
                            mt == LabelTypes(text)
                        IN  \A k \in 1..Len(mt) :
                              \E i \in 1..Len(Mapping(t)) :
                                /\ Mapping(t)[i].key =
                                      field_patterns[mt[k]].field_type
                                          \o <<ToString(r), ToString(c)>>
                                /\ Mapping(t)[i].info.label_cell = <<r, c>>
                                /\ Mapping(t)[i].info.value_cell =
                                      RefValueLocation(doc[t], r, c)

\* a loaded table in which the right neighbour of a label holds a separator
\* glyph and no pattern, and the cell below the label is its value cell
C16_Witness ==
    /\ status = "loaded"
    /\ \E t \in 1..Len(doc) : \E i \in 1..Len(Mapping(t)) :
          LET info == Mapping(t)[i].info
              r == info.label_cell[1]
              c == info.label_cell[2]
          IN  /\ info.type = "mixed"
              /\ InTable(doc[t], <<r, c + 1>>)
              /\ TextAt(doc[t], <<r, c + 1>>) \in SeparatorTexts
              /\ info.value_cell = <<r + 1, c>>

---------------------------------------------------------------------------
(* C17 *)

\* cell rc of table t is the label cell of a field that has it as value
\* cell too
OwnValueCell(t, rc) ==
    \E i \in 1..Len(Mapping(t)) :
        /\ Mapping(t)[i].info.type = "mixed"
        /\ Mapping(t)[i].info.label_cell = rc
        /\ Mapping(t)[i].info.value_cell = rc

\* C17: the first fill_form call after the analysis changes, in a table
\* handled by the mixed strategy, only cells whose text did not look like a
\* label or that are the label cell of a field whose value cell is that
\* same cell; every other cell that looked like a label keeps its text.
C17_LabelsPreserved ==
    [][ (calls = 0 /\ calls' # calls) =>
          \A t \in 1..Len(doc) :
              tables_info[t].structure \notin {"vertical", "horizontal"} =>
                  \A r \in 0..(Len(doc[t]) - 1) :
                      \A c \in 0..(Len(doc[t][r + 1]) - 1) :
                          TextAt(doc'[t], <<r, c>>) # TextAt(doc[t], <<r, c>>)
                              => \/ ~RefLooksLikeLabel(strip(TextAt(doc[t], <<r, c>>)))
                                 \/ OwnValueCell(t, <<r, c>>) ]_vars

\* after the first call on a mixed table: a field was written into the
\* cell below its label, the label keeps its text, and so does its right
\* neighbour, a text with a separator glyph
C17_Witness ==
    /\ status = "returned"
    /\ calls = 1
    /\ \E t \in 1..Len(doc) : \E i \in 1..Len(Mapping(t)) :
          LET info == Mapping(t)[i].info
              r == info.label_cell[1]
              c == info.label_cell[2]
          IN  /\ info.type = "mixed"
              /\ Attempted(t, i, data)
              /\ info.value_cell = <<r + 1, c>>
              /\ TextAt(doc[t], info.value_cell) =
                    Str(data[base_field_type(Mapping(t)[i].key)])
              /\ strip(TextAt(doc[t], <<r, c>>)) = info.label_text
              /\ InTable(doc[t], <<r, c + 1>>)
              /\ TextAt(doc[t], <<r, c + 1>>) \in SeparatorTexts

=============================================================================
